---- MODULE Spec2Model ----
(***************************************************************************)
(* Appointment booking backend (bb.py): the appointments table with its    *)
(* UNIQUE(date, time, duration) constraint, the submit_appointment handler *)
(* (validation, pre-check, insert, notification) run by concurrent         *)
(* request workers, and the slot availability engine                       *)
(* generate_available_slots.                                               *)
(*                                                                         *)
(* Texts (JSON strings, TEXT columns) are tuples of one-character strings, *)
(* so that strip, split and int conversions are computed, not assumed.     *)
(***************************************************************************)
EXTENDS Integers, Sequences, FiniteSets, TLC

VARIABLES
    db,           \* rows of table appointments, in rowid order
    pc,           \* per worker: position inside submit_appointment
    request,      \* per worker: the JSON body of the request being handled
    appointment,  \* per worker: the appointment dict of a validated request
    response,     \* per worker: the HTTP response of the finished request
    trace,        \* per worker: store and mail calls made by the request
    fresh,        \* per worker: the triple was not stored when the request arrived
    nreq,         \* number of submissions received so far
    query         \* the last GET /appointments call and its response

vars == <<db, pc, request, appointment, response, trace, fresh, nreq, query>>

(***************************************************************************)
(* Bounds of the model.                                                    *)
(***************************************************************************)
MaxRequests == 3      \* submissions received in one behaviour
MaxBooked == 2        \* rows of the store a slot query starts from

Workers == {"w1", "w2"}

(***************************************************************************)
(* Values.                                                                 *)
(***************************************************************************)
\* Python None (an absent JSON key read with data.get): no text equals it.
None == <<"None">>

DigitChars == <<"0", "1", "2", "3", "4", "5", "6", "7", "8", "9">>

IsDigit(c) == \E d \in 1..10 : DigitChars[d] = c

DigitVal(c) == (CHOOSE d \in 1..10 : DigitChars[d] = c) - 1

StudentLocation ==
    <<"S", "t", "u", "d", "e", "n", "t", " ", "L", "o", "c", "a", "t", "i", "o", "n">>

TeacherLocation ==
    <<"T", "e", "a", "c", "h", "e", "r", " ", "L", "o", "c", "a", "t", "i", "o", "n">>

Online == <<"O", "n", "l", "i", "n", "e">>

SlotTakenMessage == "This time slot is already booked. Please select a different time."

SaveFailedMessage == "Failed to save appointment. Please try again."

SavedMessage == "Appointment saved successfully"

\* What int() and the two-name unpacking raise on a malformed time text.
ValueError == -1

(***************************************************************************)
(* Helpers: time_to_minutes, minutes_to_time.                              *)
(***************************************************************************)
\* str.split(sep): the pieces between the occurrences of sep.
RECURSIVE Split(_, _)
Split(t, sep) ==
    IF \E i \in 1..Len(t) : t[i] = sep
    THEN LET i == CHOOSE k \in 1..Len(t) :
                      t[k] = sep /\ \A j \in 1..(k - 1) : t[j] # sep
         IN  <<SubSeq(t, 1, i - 1)>> \o Split(SubSeq(t, i + 1, Len(t)), sep)
    ELSE <<t>>

\* int(s) for a text of decimal digits; anything else raises.
RECURSIVE DecimalValue(_)
DecimalValue(s) ==
    IF Len(s) = 0 THEN 0
    ELSE DecimalValue(SubSeq(s, 1, Len(s) - 1)) * 10 + DigitVal(s[Len(s)])

ParseInt(s) ==
    IF Len(s) > 0 /\ \A i \in 1..Len(s) : IsDigit(s[i])
    THEN DecimalValue(s)
    ELSE ValueError

time_to_minutes(t) ==
    LET parts == Split(t, ":")
    IN  IF Len(parts) # 2 THEN ValueError
        ELSE LET h == ParseInt(parts[1])
                 m == ParseInt(parts[2])
             IN  IF h = ValueError \/ m = ValueError THEN ValueError
                 ELSE h * 60 + m

\* The decimal digits of n >= 0.
RECURSIVE Decimal(_)
Decimal(n) ==
    IF n < 10 THEN <<DigitChars[n + 1]>>
    ELSE Decimal(n \div 10) \o <<DigitChars[(n % 10) + 1]>>

\* format(n, "02d"): at least two digits, padded with zeros.
Format02d(n) == IF n < 10 THEN <<"0">> \o Decimal(n) ELSE Decimal(n)

minutes_to_time(m) == Format02d(m \div 60) \o <<":">> \o Format02d(m % 60)

(***************************************************************************)
(* generate_available_slots.                                               *)
(***************************************************************************)
\* [minutes_to_time(m) for m in range(8 * 60, 20 * 60, 30)]
possible == [i \in 1..((20 * 60 - 8 * 60) \div 30) |-> minutes_to_time(8 * 60 + 30 * (i - 1))]

\* Mutation: the travel buffer is never applied.
BufferNever(session_type) == 0

Buffer(session_type) == IF session_type = StudentLocation THEN 30 ELSE 0

\* Mutation: a slot ending exactly at 20:00 is taken to leave the window.
OutsideWindowAtClose(end_min) == end_min >= 20 * 60

OutsideWindow(end_min) == end_min > 20 * 60

EffStart(start_min, buffer) ==
    IF start_min - buffer < 0 THEN 0 ELSE start_min - buffer

\* Mutation: no booking ever excludes a candidate.
OverlapsNever(eff_start, eff_end, b_start, b_end) == FALSE

\* Mutation: intervals that only touch count as overlapping.
OverlapsClosed(eff_start, eff_end, b_start, b_end) ==
    eff_start <= b_end /\ eff_end >= b_start

\* Mutation: only the candidate's start is compared.
OverlapsStartOnly(eff_start, eff_end, b_start, b_end) ==
    eff_start < b_end /\ eff_start >= b_start

Overlaps(eff_start, eff_end, b_start, b_end) ==
    eff_start < b_end /\ eff_end > b_start

\* Mutation: an existing Student Location booking is widened by the travel
\* buffer on both sides.
RECURSIVE ScanBookedBuffered(_, _, _, _)
ScanBookedBuffered(booked, i, eff_start, eff_end) ==
    IF i > Len(booked) THEN "free"
    ELSE LET b_start == time_to_minutes(booked[i].time)
             b_end == b_start + booked[i].duration
             b_buffer == Buffer(booked[i].lesson_type)
         IN  IF b_start = ValueError THEN "raise"
             ELSE IF Overlaps(eff_start, eff_end, b_start - b_buffer, b_end + b_buffer)
             THEN "overlap"
             ELSE ScanBookedBuffered(booked, i + 1, eff_start, eff_end)

\* The loop over booked for one candidate, from row i on: "free" when the
\* loop ends without an overlap, "overlap" at the first overlapping row,
\* "raise" when a row's time text does not parse before an overlap is found.
RECURSIVE ScanBooked(_, _, _, _)
ScanBooked(booked, i, eff_start, eff_end) ==
    IF i > Len(booked) THEN "free"
    ELSE LET b_start == time_to_minutes(booked[i].time)
             b_end == b_start + booked[i].duration
         IN  IF b_start = ValueError THEN "raise"
             ELSE IF Overlaps(eff_start, eff_end, b_start, b_end) THEN "overlap"
             ELSE ScanBooked(booked, i + 1, eff_start, eff_end)

\* Mutation: the buffered end is compared with the end of the window.
SlotVerdictBufferedWindow(booked, start, dur, session_type) ==
    LET start_min == time_to_minutes(start)
        end_min == start_min + dur
        buffer == Buffer(session_type)
    IN  IF OutsideWindow(end_min + buffer) THEN "skip"
        ELSE ScanBooked(booked, 1, EffStart(start_min, buffer), end_min + buffer)

\* One iteration of the loop over possible.
SlotVerdict(booked, start, dur, session_type) ==
    LET start_min == time_to_minutes(start)
        end_min == start_min + dur
        buffer == Buffer(session_type)
    IN  IF OutsideWindow(end_min) THEN "skip"
        ELSE ScanBooked(booked, 1, EffStart(start_min, buffer), end_min + buffer)

\* The function's outcome: raised (a ValueError leaves the function) or the
\* list it returns.
generate_available_slots(booked, dur, session_type) ==
    LET Free(start) == SlotVerdict(booked, start, dur, session_type) = "free"
    IN  IF \E i \in 1..Len(possible) :
               SlotVerdict(booked, possible[i], dur, session_type) = "raise"
        THEN [raised |-> TRUE, available |-> <<>>]
        ELSE [raised |-> FALSE, available |-> SelectSeq(possible, Free)]

(***************************************************************************)
(* The booking store: table appointments (init_db) and its three queries.  *)
(* fault is what the storage layer does to the call: "ok", "execute" (the  *)
(* statement or the commit raises inside the try block) or "connect"       *)
(* (get_db_connection raises, before the try block).                       *)
(***************************************************************************)
Faults == {"ok", "execute", "connect"}

TripleStored(store, date, time, duration) ==
    \E i \in 1..Len(store) :
        /\ store[i].date = date
        /\ store[i].time = time
        /\ store[i].duration = duration

\* Mutation: the constraint also spans lesson_type.
UniquePerLessonType(store, a) ==
    \E i \in 1..Len(store) :
        /\ store[i].date = a.date
        /\ store[i].time = a.time
        /\ store[i].duration = a.duration
        /\ store[i].lesson_type = a.lesson_type

\* Mutation: the table has no UNIQUE constraint.
UniqueNever(store, a) == FALSE

\* UNIQUE(date, time, duration)
UniqueViolation(store, a) == TripleStored(store, a.date, a.time, a.duration)

\* name, date, time, lesson_type TEXT NOT NULL (duration is an integer here)
NotNullViolation(a) ==
    a.name = None \/ a.date = None \/ a.time = None \/ a.lesson_type = None

\* Mutation: the INSERT binds email and phone to each other's column.
NewRowContactSwapped(store, a) ==
    [id |-> Len(store) + 1, name |-> a.name, email |-> a.phone,
     phone |-> a.email, date |-> a.date, time |-> a.time,
     duration |-> a.duration, lesson_type |-> a.lesson_type]

\* The row an INSERT adds; id is the next rowid (AUTOINCREMENT, no deletes).
\* created_at is set by the store and read by nothing: it is left out.
NewRow(store, a) ==
    [id |-> Len(store) + 1, name |-> a.name, email |-> a.email,
     phone |-> a.phone, date |-> a.date, time |-> a.time,
     duration |-> a.duration, lesson_type |-> a.lesson_type]

get_appointments_for_date(store, date, fault) ==
    LET OnDate(row) == row.date = date
    IN  IF fault = "connect" THEN [raised |-> TRUE, rows |-> <<>>]
        ELSE IF fault = "execute" THEN [raised |-> FALSE, rows |-> <<>>]
        ELSE [raised |-> FALSE, rows |-> SelectSeq(store, OnDate)]

\* Mutation: the pre-check turns down a request whose interval overlaps a
\* stored appointment of the date.
is_slot_available_no_overlap(store, date, time, duration, fault) ==
    IF fault = "connect" THEN [raised |-> TRUE, ret |-> FALSE]
    ELSE IF fault = "execute" THEN [raised |-> FALSE, ret |-> FALSE]
    ELSE [raised |-> FALSE,
          ret |-> ~\E i \in 1..Len(store) :
                      /\ store[i].date = date
                      /\ Overlaps(time_to_minutes(time), time_to_minutes(time) + duration,
                                  time_to_minutes(store[i].time),
                                  time_to_minutes(store[i].time) + store[i].duration)]

\* Mutation: a failed read is taken for a free slot.
is_slot_available_fail_open(store, date, time, duration, fault) ==
    IF fault = "connect" THEN [raised |-> TRUE, ret |-> FALSE]
    ELSE IF fault = "execute" THEN [raised |-> FALSE, ret |-> TRUE]
    ELSE [raised |-> FALSE, ret |-> ~TripleStored(store, date, time, duration)]

is_slot_available(store, date, time, duration, fault) ==
    IF fault = "connect" THEN [raised |-> TRUE, ret |-> FALSE]
    ELSE IF fault = "execute" THEN [raised |-> FALSE, ret |-> FALSE]
    ELSE [raised |-> FALSE, ret |-> ~TripleStored(store, date, time, duration)]

\* sqlite3.IntegrityError: any constraint of the table fails.
IntegrityError(store, a) == UniqueViolation(store, a) \/ NotNullViolation(a)

\* Mutation: a statement that fails after the INSERT leaves the row behind.
save_appointment_uncommitted(store, a, fault) ==
    IF fault = "connect"
    THEN [raised |-> TRUE, success |-> FALSE, message |-> "", store |-> store]
    ELSE IF fault = "execute"
    THEN [raised |-> FALSE, success |-> FALSE, message |-> SaveFailedMessage,
          store |-> Append(store, NewRow(store, a))]
    ELSE IF IntegrityError(store, a)
    THEN [raised |-> FALSE, success |-> FALSE, message |-> SlotTakenMessage,
          store |-> store]
    ELSE [raised |-> FALSE, success |-> TRUE, message |-> SavedMessage,
          store |-> Append(store, NewRow(store, a))]

save_appointment(store, a, fault) ==
    IF fault = "connect"
    THEN [raised |-> TRUE, success |-> FALSE, message |-> "", store |-> store]
    ELSE IF fault = "execute"
    THEN [raised |-> FALSE, success |-> FALSE, message |-> SaveFailedMessage,
          store |-> store]
    ELSE IF IntegrityError(store, a)
    THEN [raised |-> FALSE, success |-> FALSE, message |-> SlotTakenMessage,
          store |-> store]
    ELSE [raised |-> FALSE, success |-> TRUE, message |-> SavedMessage,
          store |-> Append(store, NewRow(store, a))]

(***************************************************************************)
(* send_booking_email: every exception is caught and turned into False.    *)
(* create_ics_file parses date and time with "%Y-%m-%d %H:%M" inside that  *)
(* try block, so a time text strptime rejects makes the mail fail.         *)
(***************************************************************************)
\* %H:%M accepts one or two digits each, hour 0..23, minute 0..59.
StrptimeAccepts(time) ==
    LET parts == Split(time, ":")
    IN  /\ Len(parts) = 2
        /\ Len(parts[1]) \in 1..2 /\ Len(parts[2]) \in 1..2
        /\ ParseInt(parts[1]) \in 0..23
        /\ ParseInt(parts[2]) \in 0..59

send_booking_email(a, smtp_ok) == StrptimeAccepts(a.time) /\ smtp_ok

(***************************************************************************)
(* submit_appointment: validation.                                         *)
(***************************************************************************)
IsSpace(c) == c = " "

\* str.strip()
RECURSIVE Strip(_)
Strip(s) ==
    IF Len(s) = 0 THEN s
    ELSE IF IsSpace(s[1]) THEN Strip(Tail(s))
    ELSE IF IsSpace(s[Len(s)]) THEN Strip(SubSeq(s, 1, Len(s) - 1))
    ELSE s

\* Python truth of a text or None: None and "" are false.
Falsy(v) == v = None \/ v = <<>>

ErrorText(key) ==
    CASE key = "duration" -> "Invalid duration"
      [] key = "datetime" -> "Select a day and time"
      [] key = "contact" -> "Provide at least email or phone"
      [] key = "name" -> "Please provide your name"

\* Mutation: a range check in place of the membership test.
DurationOutOfRange(duration) == duration < 30 \/ duration > 60

DurationInvalid(duration) == duration \notin {30, 60}

\* Mutation: the contact check is left out.
ContactNeverMissing(email, phone) == FALSE

ContactMissing(email, phone) == Falsy(email) /\ Falsy(phone)

\* The keys of the errors dict.
ValidationErrors(data) ==
    {k \in {"duration", "datetime", "contact", "name"} :
        \/ k = "duration" /\ DurationInvalid(data.duration)
        \/ k = "datetime" /\ (Falsy(data.date) \/ Falsy(data.time))
        \/ k = "contact" /\ ContactMissing(data.email, data.phone)
        \/ k = "name" /\ Falsy(Strip(data.name))}

\* The appointment dict built from the request's fields.
AppointmentOf(data) ==
    [name |-> Strip(data.name), date |-> data.date, time |-> data.time,
     duration |-> data.duration, lesson_type |-> data.lesson_type,
     email |-> data.email, phone |-> data.phone]

(***************************************************************************)
(* Responses.                                                              *)
(***************************************************************************)
NoErrors == [k \in {} |-> ""]

NoResponse == [status |-> 0, success |-> FALSE, errors |-> NoErrors, message |-> ""]

ValidationResponse(keys) ==
    [status |-> 400, success |-> FALSE,
     errors |-> [k \in keys |-> ErrorText(k)], message |-> ""]

SlotResponse ==
    [status |-> 400, success |-> FALSE,
     errors |-> [k \in {"slot"} |-> SlotTakenMessage], message |-> ""]

DatabaseResponse(message) ==
    [status |-> 400, success |-> FALSE,
     errors |-> [k \in {"database"} |-> message], message |-> ""]

SuccessResponse(message) ==
    [status |-> 200, success |-> TRUE, errors |-> NoErrors, message |-> message]

\* An exception that leaves the view: Flask answers 500.
ServerErrorResponse ==
    [status |-> 500, success |-> FALSE, errors |-> NoErrors, message |-> ""]

\* Mutation: a failed notification is reported as a failed booking.
AfterEmailResponseStrict(email_sent, message) ==
    IF email_sent THEN SuccessResponse(message) ELSE DatabaseResponse(SaveFailedMessage)

\* The response once the row is saved, whatever send_booking_email returned.
AfterEmailResponse(email_sent, message) == SuccessResponse(message)

(***************************************************************************)
(* Inputs.                                                                 *)
(***************************************************************************)
D1 == <<"2", "0", "2", "5", "-", "0", "9", "-", "2", "8">>

D2 == <<"2", "0", "2", "5", "-", "0", "9", "-", "2", "9">>

T1000 == <<"1", "0", ":", "0", "0">>

T1030 == <<"1", "0", ":", "3", "0">>

\* A time text the handler accepts (it is not empty) and no parser does.
TBad == <<"1", "0", "h">>

Ann == <<"A", "n", "n">>

Mail == <<"a", "@", "b">>

Phone == <<"5", "5", "5">>

BaseRequest ==
    [name |-> Ann, email |-> Mail, phone |-> <<>>, date |-> D1, time |-> T1000,
     duration |-> 60, lesson_type |-> Online]

\* The JSON bodies posted to /submit_appointment: each field of the base
\* request varies in turn, and the contact fields vary together.
DateRequests == {[BaseRequest EXCEPT !.date = d] : d \in {None, <<>>, D2}}

TimeRequests == {[BaseRequest EXCEPT !.time = t] : t \in {None, <<>>, T1030, TBad}}

DurationRequests == {[BaseRequest EXCEPT !.duration = n] : n \in {30, 45}}

LessonRequests ==
    {[BaseRequest EXCEPT !.lesson_type = l] : l \in {None, Online, StudentLocation}}

ContactRequests ==
    {[BaseRequest EXCEPT !.name = nm, !.email = e, !.phone = ph] :
        nm \in {<<>>, <<" ", " ">>, <<" ">> \o Ann}, e \in {<<>>, Mail},
        ph \in {<<>>, Phone}}

Requests ==
    DateRequests \cup TimeRequests \cup DurationRequests \cup LessonRequests
        \cup ContactRequests

NoRequest ==
    [name |-> <<>>, email |-> <<>>, phone |-> <<>>, date |-> None, time |-> None,
     duration |-> 0, lesson_type |-> None]

NoAppointment ==
    [name |-> <<>>, date |-> None, time |-> None, duration |-> 0,
     lesson_type |-> None, email |-> <<>>, phone |-> <<>>]

NoQuery ==
    [date |-> None, dur |-> 0, type |-> <<>>, fault |-> "ok", status |-> 0,
     seen |-> 0, booked |-> <<>>, available |-> <<>>]

(***************************************************************************)
(* POST /submit_appointment, one action per step a worker takes between    *)
(* two accesses to the store.                                              *)
(***************************************************************************)
\* A call as the trace records it: what it returned, the fault it met, and
\* whether the store held the appointment's triple when it ran.
Call(op, ret, fault, stored) ==
    [op |-> op, ret |-> ret, fault |-> fault, stored |-> stored]

Stored(store, a) == TripleStored(store, a.date, a.time, a.duration)

Finished(p, resp) ==
    /\ pc' = [pc EXCEPT ![p] = "done"]
    /\ response' = [response EXCEPT ![p] = resp]

\* Lines 415-435: read the fields, validate, answer 400 on any error.
Receive(p, data) ==
    /\ pc[p] = "idle"
    /\ nreq < MaxRequests
    /\ nreq' = nreq + 1
    /\ trace' = [trace EXCEPT ![p] = <<>>]
    /\ request' = [request EXCEPT ![p] = data]
    /\ LET errors == ValidationErrors(data)
       IN  IF errors # {}
           THEN /\ Finished(p, ValidationResponse(errors))
                /\ UNCHANGED <<appointment, fresh>>
           ELSE /\ pc' = [pc EXCEPT ![p] = "check"]
                /\ appointment' = [appointment EXCEPT ![p] = AppointmentOf(data)]
                /\ fresh' = [fresh EXCEPT ![p] = ~Stored(db, AppointmentOf(data))]
                /\ UNCHANGED response
    /\ UNCHANGED <<db, query>>

\* Lines 437-442: the pre-check.
PreCheck(p, fault) ==
    /\ pc[p] = "check"
    /\ LET a == appointment[p]
           r == is_slot_available(db, a.date, a.time, a.duration, fault)
       IN  /\ trace' = [trace EXCEPT ![p] =
                            Append(@, Call("is_slot_available",
                                           IF r.raised THEN "raise"
                                           ELSE IF r.ret THEN "True" ELSE "False",
                                           fault, Stored(db, a)))]
           /\ IF r.raised THEN Finished(p, ServerErrorResponse)
              ELSE IF ~r.ret THEN Finished(p, SlotResponse)
              ELSE /\ pc' = [pc EXCEPT ![p] = "save"]
                   /\ UNCHANGED response
    /\ UNCHANGED <<db, request, appointment, fresh, nreq, query>>

\* Lines 454-455 and 468-473: the insert.
Save(p, fault) ==
    /\ pc[p] = "save"
    /\ LET a == appointment[p]
           r == save_appointment(db, a, fault)
       IN  /\ db' = r.store
           /\ trace' = [trace EXCEPT ![p] =
                            Append(@, Call("save_appointment",
                                           IF r.raised THEN "raise" ELSE r.message,
                                           fault, Stored(db, a)))]
           /\ IF r.raised THEN Finished(p, ServerErrorResponse)
              ELSE IF ~r.success THEN Finished(p, DatabaseResponse(r.message))
              ELSE /\ pc' = [pc EXCEPT ![p] = "notify"]
                   /\ UNCHANGED response
    /\ UNCHANGED <<request, appointment, fresh, nreq, query>>

\* Lines 457-467: the notification, then the success response.
Notify(p, smtp_ok) ==
    /\ pc[p] = "notify"
    /\ LET a == appointment[p]
           email_sent == send_booking_email(a, smtp_ok)
       IN  /\ trace' = [trace EXCEPT ![p] =
                            Append(@, Call("send_booking_email",
                                           IF email_sent THEN "True" ELSE "False",
                                           "ok", Stored(db, a)))]
           /\ Finished(p, AfterEmailResponse(email_sent, SavedMessage))
    /\ UNCHANGED <<db, request, appointment, fresh, nreq, query>>

\* The response is sent; the worker takes the next request.
Finish(p) ==
    /\ pc[p] = "done"
    /\ pc' = [pc EXCEPT ![p] = "idle"]
    /\ response' = [response EXCEPT ![p] = NoResponse]
    /\ request' = [request EXCEPT ![p] = NoRequest]
    /\ appointment' = [appointment EXCEPT ![p] = NoAppointment]
    /\ trace' = [trace EXCEPT ![p] = <<>>]
    /\ fresh' = [fresh EXCEPT ![p] = FALSE]
    /\ UNCHANGED <<db, nreq, query>>

(***************************************************************************)
(* GET /appointments.                                                      *)
(***************************************************************************)
\* Mutation: an answer computed for the same parameters is served again.
GetAppointmentsCached(date, dur, typ, fault) ==
    /\ IF Falsy(date) \/ dur = 0
       THEN query' = [date |-> date, dur |-> dur, type |-> typ, fault |-> "ok",
                      status |-> 400, seen |-> 0, booked |-> <<>>,
                      available |-> <<>>]
       ELSE IF /\ query.status = 200 /\ query.date = date /\ query.dur = dur
               /\ query.type = typ /\ query.fault = fault
       THEN query' = [query EXCEPT !.seen = Len(db)]
       ELSE LET read == get_appointments_for_date(db, date, fault)
                slots == generate_available_slots(read.rows, dur, typ)
            IN  query' = [date |-> date, dur |-> dur, type |-> typ, fault |-> fault,
                          status |-> IF read.raised \/ slots.raised THEN 500 ELSE 200,
                          seen |-> Len(db), booked |-> read.rows,
                          available |-> IF read.raised THEN <<>> ELSE slots.available]
    /\ UNCHANGED <<db, pc, request, appointment, response, trace, fresh, nreq>>

\* Lines 378-398. dur = 0 stands for an absent or non-integer d. The record
\* keeps, with the response, the fault met, the number of rows the table
\* held when it was read (seen) and the rows the read returned.
GetAppointments(date, dur, typ, fault) ==
    /\ IF Falsy(date) \/ dur = 0
       THEN query' = [date |-> date, dur |-> dur, type |-> typ, fault |-> "ok",
                      status |-> 400, seen |-> 0, booked |-> <<>>,
                      available |-> <<>>]
       ELSE LET read == get_appointments_for_date(db, date, fault)
                slots == generate_available_slots(read.rows, dur, typ)
            IN  query' = [date |-> date, dur |-> dur, type |-> typ, fault |-> fault,
                          status |-> IF read.raised \/ slots.raised THEN 500 ELSE 200,
                          seen |-> Len(db), booked |-> read.rows,
                          available |-> IF read.raised THEN <<>> ELSE slots.available]
    /\ UNCHANGED <<db, pc, request, appointment, response, trace, fresh, nreq>>

(***************************************************************************)
(* The server: concurrent workers over one store.  GET /appointments reads *)
(* the store and writes nothing; SpecSlots and SpecBook below exercise it.  *)
(***************************************************************************)
Init ==
    /\ db = <<>>
    /\ pc = [p \in Workers |-> "idle"]
    /\ request = [p \in Workers |-> NoRequest]
    /\ appointment = [p \in Workers |-> NoAppointment]
    /\ response = [p \in Workers |-> NoResponse]
    /\ trace = [p \in Workers |-> <<>>]
    /\ fresh = [p \in Workers |-> FALSE]
    /\ nreq = 0
    /\ query = NoQuery

Next ==
    \E p \in Workers :
        \/ \E data \in Requests : Receive(p, data)
        \/ \E fault \in Faults : PreCheck(p, fault)
        \/ \E fault \in Faults : Save(p, fault)
        \/ \E smtp_ok \in BOOLEAN : Notify(p, smtp_ok)
        \/ Finish(p)

Spec == Init /\ [][Next]_vars

(***************************************************************************)
(* The availability engine on its own: a store the handler can have built, *)
(* then one GET /appointments call.                                        *)
(***************************************************************************)
T0745 == <<"7", ":", "4", "5">>

T1930 == <<"1", "9", ":", "3", "0">>

\* Appointments submit_appointment accepts: times inside and outside the
\* window, aligned or not, padded or not, and one no parser accepts.
BookedSamples ==
    {AppointmentOf([BaseRequest EXCEPT !.time = t, !.duration = n]) :
        t \in {T1000, T0745, T1930, TBad}, n \in {30, 60}}
    \cup {AppointmentOf([BaseRequest EXCEPT !.date = D2]),
          AppointmentOf([BaseRequest EXCEPT !.lesson_type = StudentLocation]),
          AppointmentOf([BaseRequest EXCEPT !.time = T1030, !.duration = 30,
                                            !.lesson_type = StudentLocation])}

\* The store after the appointments of bookings are saved in turn.
RECURSIVE StoreAfter(_)
StoreAfter(bookings) ==
    IF Len(bookings) = 0 THEN <<>>
    ELSE save_appointment(StoreAfter(SubSeq(bookings, 1, Len(bookings) - 1)),
                          bookings[Len(bookings)], "ok").store

SlotStores ==
    {StoreAfter(bookings) :
        bookings \in UNION {[1..n -> BookedSamples] : n \in 0..MaxBooked}}

QueryDates == {None, D1, D2}

QueryDurations == {0, 30, 60, 90}

SessionTypes == {Online, StudentLocation, TeacherLocation}

Query(date, dur, typ, fault) ==
    /\ query.status = 0
    /\ GetAppointments(date, dur, typ, fault)

InitSlots ==
    /\ db \in SlotStores
    /\ pc = [p \in Workers |-> "idle"]
    /\ request = [p \in Workers |-> NoRequest]
    /\ appointment = [p \in Workers |-> NoAppointment]
    /\ response = [p \in Workers |-> NoResponse]
    /\ trace = [p \in Workers |-> <<>>]
    /\ fresh = [p \in Workers |-> FALSE]
    /\ nreq = 0
    /\ query = NoQuery

NextSlots ==
    \E date \in QueryDates, dur \in QueryDurations, typ \in SessionTypes,
       fault \in Faults : Query(date, dur, typ, fault)

SpecSlots == InitSlots /\ [][NextSlots]_vars

(***************************************************************************)
(* One client booking and querying in turn: submissions are handled one    *)
(* after the other by worker w1, and the client asks for the free slots    *)
(* between two submissions.                                                *)
(***************************************************************************)
MaxBookings == 2      \* submissions received in one behaviour of SpecBook

BookDates == {D1}

BookDurations == {30, 60}

BookTypes == {Online, StudentLocation}

\* The bodies this client posts: the base request, one per changed field
\* (07:45 is off the half-hour grid and before the window), one without
\* lesson_type, one with a padded name and a phone number only, and two
\* that fail validation.
BookRequests ==
    {BaseRequest,
     [BaseRequest EXCEPT !.time = T1030],
     [BaseRequest EXCEPT !.time = T0745],
     [BaseRequest EXCEPT !.duration = 30],
     [BaseRequest EXCEPT !.lesson_type = None],
     [BaseRequest EXCEPT !.name = <<" ">> \o Ann, !.email = <<>>, !.phone = Phone],
     [BaseRequest EXCEPT !.duration = 45],
     [BaseRequest EXCEPT !.name = <<" ", " ">>]}

Submit(data) ==
    /\ nreq < MaxBookings
    /\ Receive("w1", data)

Ask(date, dur, typ, fault) ==
    /\ pc["w1"] = "idle"
    /\ GetAppointments(date, dur, typ, fault)

NextBook ==
    \/ \E data \in BookRequests : Submit(data)
    \/ \E fault \in Faults : PreCheck("w1", fault)
    \/ \E fault \in Faults : Save("w1", fault)
    \/ \E smtp_ok \in BOOLEAN : Notify("w1", smtp_ok)
    \/ Finish("w1")
    \/ \E date \in BookDates, dur \in BookDurations, typ \in BookTypes,
          fault \in Faults : Ask(date, dur, typ, fault)

SpecBook == Init /\ [][NextBook]_vars

(***************************************************************************)
(* Properties of the availability engine (checked under SpecSlots).        *)
(***************************************************************************)
HHMM(a, b, c, d) == <<a, b, ":", c, d>>

\* The rows of the store on the queried date.
RowsOnDate == {db[i] : i \in {j \in 1..Len(db) : db[j].date = query.date}}

BookedRows == {query.booked[i] : i \in 1..Len(query.booked)}

Answered == query.status = 200

AvailableSet == {query.available[i] : i \in 1..Len(query.available)}

MaxOf(a, b) == IF a >= b THEN a ELSE b

\* The start times the availability rule admits, in minutes of the day.
AdmittedStarts(booked, d, typ) ==
    LET buffer == IF typ = StudentLocation THEN 30 ELSE 0
    IN  {s \in (8 * 60)..(20 * 60 - 1) :
            /\ s % 30 = 0
            /\ s + d <= 20 * 60
            /\ ~\E b \in booked :
                   /\ MaxOf(0, s - buffer) < time_to_minutes(b.time) + b.duration
                   /\ s + d + buffer > time_to_minutes(b.time)}

\* C3: an answered query returns, in ascending time order and as HH:MM
\* texts, exactly the half-hour starts s in [08:00, 20:00) with
\* s + d <= 20:00 that no booking b of the date meets with
\* max(0, s - buffer) < b.start + b.duration and s + d + buffer > b.start,
\* buffer being 30 for Student Location and 0 otherwise; the bookings are
\* the rows the read returned, which are the rows of the date when the read
\* met no fault.
C3_ExactSlots ==
    Answered =>
        LET m == [i \in 1..Len(query.available) |-> time_to_minutes(query.available[i])]
        IN  /\ \A i, j \in 1..Len(m) : i < j => m[i] < m[j]
            /\ {m[i] : i \in 1..Len(m)} = AdmittedStarts(BookedRows, query.dur, query.type)
            /\ \A i \in 1..Len(m) :
                   query.available[i] =
                       HHMM(DigitChars[(m[i] \div 600) + 1], DigitChars[((m[i] \div 60) % 10) + 1],
                            DigitChars[((m[i] % 60) \div 10) + 1], DigitChars[(m[i] % 10) + 1])
            /\ query.fault = "ok" => BookedRows = RowsOnDate

\* A query answered over two bookings of the date, one of them excluding
\* candidates, with some candidates left.
C3_Witness ==
    /\ Answered /\ query.fault = "ok"
    /\ Cardinality(RowsOnDate) = 2
    /\ query.type = StudentLocation
    /\ Len(query.available) \in 1..20

EveryHalfHourTo1900 ==
    <<HHMM("0", "8", "0", "0"), HHMM("0", "8", "3", "0"), HHMM("0", "9", "0", "0"),
      HHMM("0", "9", "3", "0"), HHMM("1", "0", "0", "0"), HHMM("1", "0", "3", "0"),
      HHMM("1", "1", "0", "0"), HHMM("1", "1", "3", "0"), HHMM("1", "2", "0", "0"),
      HHMM("1", "2", "3", "0"), HHMM("1", "3", "0", "0"), HHMM("1", "3", "3", "0"),
      HHMM("1", "4", "0", "0"), HHMM("1", "4", "3", "0"), HHMM("1", "5", "0", "0"),
      HHMM("1", "5", "3", "0"), HHMM("1", "6", "0", "0"), HHMM("1", "6", "3", "0"),
      HHMM("1", "7", "0", "0"), HHMM("1", "7", "3", "0"), HHMM("1", "8", "0", "0"),
      HHMM("1", "8", "3", "0"), HHMM("1", "9", "0", "0")>>

\* C4: on a date with no booking, a duration-60 query returns exactly
\* 08:00, 08:30, ..., 19:00, whatever the session type.
C4_EmptyDay60 ==
    (Answered /\ RowsOnDate = {} /\ query.dur = 60) =>
        query.available = EveryHalfHourTo1900

\* A Student Location query of duration 60 answered for a date without
\* bookings while the store holds bookings of another date.
C4_Witness ==
    /\ Answered /\ RowsOnDate = {} /\ query.dur = 60
    /\ Len(db) > 0 /\ query.fault = "ok"
    /\ query.type = StudentLocation
    /\ Len(query.available) = 23

\* The engine saw a single booking, at 10:00 for 60 minutes.
OneBookingAt1000 ==
    /\ Answered /\ query.fault = "ok"
    /\ Len(query.booked) = 1
    /\ query.booked[1].time = HHMM("1", "0", "0", "0")
    /\ query.booked[1].duration = 60

From1100On ==
    {EveryHalfHourTo1900[i] : i \in 7..23} \cup {HHMM("1", "9", "3", "0")}

\* C5: with buffer 0 and a single booking at 10:00 for 60 minutes, a
\* duration-30 query contains 09:30 (it ends exactly at 10:00) and every
\* start from 11:00 on, and contains neither 10:00 nor 10:30.
C5_BoundaryTouch ==
    (OneBookingAt1000 /\ query.dur = 30 /\ query.type # StudentLocation) =>
        /\ HHMM("0", "9", "3", "0") \in AvailableSet
        /\ From1100On \subseteq AvailableSet
        /\ HHMM("1", "0", "0", "0") \notin AvailableSet
        /\ HHMM("1", "0", "3", "0") \notin AvailableSet

C5_Witness ==
    /\ OneBookingAt1000 /\ query.dur = 30 /\ query.type = Online
    /\ Len(query.available) = 22

\* C6: with a single booking at 10:00 for 60 minutes, a duration-30 Student
\* Location query excludes 11:00 and 09:30 (the candidate is widened by 30
\* minutes on both sides, and by no more: 09:00 and 11:30 stay), while the
\* same query with type Online includes 11:00 and 09:30.
C6_StudentLocationBuffer ==
    (OneBookingAt1000 /\ query.dur = 30) =>
        /\ query.type = StudentLocation =>
               /\ HHMM("1", "1", "0", "0") \notin AvailableSet
               /\ HHMM("0", "9", "3", "0") \notin AvailableSet
               /\ HHMM("0", "9", "0", "0") \in AvailableSet
               /\ HHMM("1", "1", "3", "0") \in AvailableSet
        /\ query.type = Online =>
               /\ HHMM("1", "1", "0", "0") \in AvailableSet
               /\ HHMM("0", "9", "3", "0") \in AvailableSet

C6_Witness ==
    /\ OneBookingAt1000 /\ query.dur = 30 /\ query.type = StudentLocation
    /\ Len(query.available) = 20

(***************************************************************************)
(* Properties of the store and of submit_appointment (checked under Spec). *)
(***************************************************************************)
SameTriple(a, b) ==
    a.date = b.date /\ a.time = b.time /\ a.duration = b.duration

Calls(p, op) == {i \in 1..Len(trace[p]) : trace[p][i].op = op}

\* The response carries the slot-taken message under one of its error keys.
SlotConflict(resp) ==
    /\ ~resp.success /\ resp.status = 400
    /\ \E k \in DOMAIN resp.errors :
           k \in {"slot", "database"} /\ resp.errors[k] = SlotTakenMessage

\* C1: no two stored appointments have the same (date, time, duration),
\* also when their lesson types differ.
C1_UniqueTriples ==
    \A i, j \in 1..Len(db) : i # j => ~SameTriple(db[i], db[j])

\* Two workers passed the pre-check for one triple with different lesson
\* types; one row is stored and the other insert was turned down.
C1_Witness ==
    \E p, q \in Workers :
        /\ p # q
        /\ SameTriple(appointment[p], appointment[q])
        /\ appointment[p].lesson_type # appointment[q].lesson_type
        /\ appointment[q].lesson_type # None
        /\ \E i \in Calls(p, "save_appointment") : trace[p][i].ret = SavedMessage
        /\ \E i \in Calls(q, "save_appointment") :
               trace[q][i].ret = SlotTakenMessage /\ trace[q][i].stored
        /\ \E i \in Calls(q, "is_slot_available") : trace[q][i].ret = "True"

\* The request of p passed validation, names a lesson type, and none of its
\* store calls met a fault.
RanClean(p) ==
    /\ ValidationErrors(request[p]) = {}
    /\ request[p].lesson_type # None
    /\ \A i \in 1..Len(trace[p]) : trace[p][i].fault = "ok"

\* C2: two requests for one triple that both arrived while the store did
\* not hold it (so they overlap in time), once both are answered: exactly
\* one is a success and the other a slot conflict, under every interleaving
\* of their pre-check and insert steps.
C2_OneWinner ==
    \A p, q \in Workers :
        (/\ p # q
         /\ pc[p] = "done" /\ pc[q] = "done"
         /\ RanClean(p) /\ RanClean(q)
         /\ fresh[p] /\ fresh[q]
         /\ SameTriple(appointment[p], appointment[q]))
        => \/ response[p].success /\ response[p].status = 200 /\ SlotConflict(response[q])
           \/ response[q].success /\ response[q].status = 200 /\ SlotConflict(response[p])

\* Both requests passed the pre-check before either inserted; the loser was
\* stopped by the insert.
C2_Witness ==
    \E p, q \in Workers :
        /\ p # q
        /\ pc[p] = "done" /\ pc[q] = "done"
        /\ RanClean(p) /\ RanClean(q)
        /\ fresh[p] /\ fresh[q]
        /\ SameTriple(appointment[p], appointment[q])
        /\ response[p].success
        /\ Len(trace[q]) = 2
        /\ trace[q][1].ret = "True" /\ ~trace[q][1].stored
        /\ trace[q][2].ret = SlotTakenMessage

Blank(text) == \A i \in 1..Len(text) : text[i] = " "

Missing(v) == v = None \/ v = <<>>

\* The fields of a request body that make it invalid, by error key.
InvalidFields(d) ==
    (IF d.duration \notin {30, 60} THEN {"duration"} ELSE {})
    \cup (IF Missing(d.date) \/ Missing(d.time) THEN {"datetime"} ELSE {})
    \cup (IF Missing(d.email) /\ Missing(d.phone) THEN {"contact"} ELSE {})
    \cup (IF Blank(d.name) THEN {"name"} ELSE {})

C7_Rejected ==
    \A p \in Workers :
        (pc[p] # "idle" /\ InvalidFields(request[p]) # {}) =>
            /\ pc[p] = "done"
            /\ response[p].status = 400 /\ ~response[p].success
            /\ DOMAIN response[p].errors = InvalidFields(request[p])
            /\ trace[p] = <<>>

C7_Frame ==
    \A p \in Workers :
        (pc[p] = "idle" /\ pc'[p] # "idle" /\ InvalidFields(request'[p]) # {}) =>
            db' = db

\* C7: a request whose duration is not 30 or 60, or that lacks date or time,
\* or has neither email nor phone, or has a blank name, is answered with a
\* validation error naming exactly the offending fields, whatever its other
\* fields are; it makes no pre-check, no insert and no notification, and
\* the step that receives it leaves the store unchanged.
C7_ValidationRejects == []C7_Rejected /\ [][C7_Frame]_vars

\* A request with duration 45 and valid other fields is rejected while the
\* store holds a row, and so is one with neither email nor phone.
C7_Witness ==
    /\ Len(db) = 1
    /\ \E p, q \in Workers :
           /\ pc[p] = "done" /\ request[p].duration = 45
           /\ DOMAIN response[p].errors = {"duration"}
           /\ pc[q] = "done" /\ request[q].duration = 60
           /\ DOMAIN response[q].errors = {"contact"}

\* C8 as stated: save_appointment gives the slot-taken outcome only when a
\* row with the same triple is stored (and always then, unless the storage
\* layer itself fails), and every other failure of the insert, such as a
\* record without lesson_type, gives the generic storage-failure outcome.
C8_SlotTakenOnlyOnDuplicate ==
    \A p \in Workers : \A i \in Calls(p, "save_appointment") :
        LET c == trace[p][i]
        IN  c.ret # "raise" =>
                /\ c.ret = SlotTakenMessage => c.stored
                /\ (c.stored /\ c.fault = "ok") => c.ret = SlotTakenMessage
                /\ (~c.stored /\ c.ret # SavedMessage) => c.ret = SaveFailedMessage

HasRow(a) ==
    \E i \in 1..Len(db) :
        /\ db[i].name = a.name /\ db[i].email = a.email /\ db[i].phone = a.phone
        /\ db[i].date = a.date /\ db[i].time = a.time
        /\ db[i].duration = a.duration /\ db[i].lesson_type = a.lesson_type

\* C10: the notification is dispatched only right after save_appointment
\* succeeded for the same request, and once it has run, sent or not, the
\* request is answered with success and the appointment is stored.
C10_NotifyAfterSave ==
    \A p \in Workers :
        /\ \A i \in Calls(p, "send_booking_email") :
               /\ i > 1
               /\ trace[p][i - 1].op = "save_appointment"
               /\ trace[p][i - 1].ret = SavedMessage
               /\ pc[p] = "done"
               /\ response[p].success /\ response[p].status = 200
               /\ response[p].errors = NoErrors
               /\ HasRow(appointment[p])
        /\ pc[p] = "notify" =>
               /\ trace[p][Len(trace[p])].ret = SavedMessage
               /\ HasRow(appointment[p])

\* A request answered with success although its notification failed.
C10_Witness ==
    \E p \in Workers :
        /\ pc[p] = "done"
        /\ Len(trace[p]) = 3
        /\ trace[p][3].op = "send_booking_email" /\ trace[p][3].ret = "False"
        /\ response[p].success
        /\ HasRow(appointment[p])


(***************************************************************************)
(* Read failures, the round trip and the life of a stored appointment.     *)
(***************************************************************************)
\* The minutes of every half-hour start s in [08:00, 20:00) with
\* s + d <= 20:00.
InWindowStarts(d) ==
    {s \in (8 * 60)..(20 * 60 - 1) : s % 30 = 0 /\ s + d <= 20 * 60}

AvailableMinutes == {time_to_minutes(t) : t \in AvailableSet}

\* The read of the query failed: the statement raised or the connection
\* could not be opened.
ReadFailed == query.status # 0 /\ query.fault # "ok"

\* C11 as stated: whenever the store read fails, the read yields an empty
\* sequence and the query is answered with every in-window candidate, as if
\* nothing were booked, whatever the store holds on that date.
C11_ReadFailureShowsAllFree ==
    ReadFailed =>
        /\ Answered
        /\ query.booked = <<>>
        /\ Len(query.available) = Cardinality(InWindowStarts(query.dur))
        /\ AvailableMinutes = InWindowStarts(query.dur)

\* The part of C11 that holds: a statement that raises inside the try block
\* is answered with every in-window candidate even over a booked date.
C11_ExecuteFailureShowsAllFree ==
    (query.status # 0 /\ query.fault = "execute") =>
        /\ Answered
        /\ query.booked = <<>>
        /\ AvailableMinutes = InWindowStarts(query.dur)

\* The rows an undisturbed get_appointments_for_date(date) returns.
ReadBack(date) ==
    LET rows == get_appointments_for_date(db, date, "ok").rows
    IN  {rows[i] : i \in 1..Len(rows)}

\* The submission of worker p has been answered with success.
Succeeded(p) == pc[p] = "done" /\ response[p].success

\* t is s without its leading and trailing blanks.
TrimOf(s, t) ==
    \E i, j \in 0..Len(s) :
        /\ i + j <= Len(s)
        /\ t = SubSeq(s, i + 1, Len(s) - j)
        /\ \A k \in 1..i : s[k] = " "
        /\ \A k \in (Len(s) - j + 1)..Len(s) : s[k] = " "
        /\ t # <<>> => (t[1] # " " /\ t[Len(t)] # " ")

SameButName(row, d) ==
    /\ row.email = d.email /\ row.phone = d.phone
    /\ row.date = d.date /\ row.time = d.time
    /\ row.duration = d.duration /\ row.lesson_type = d.lesson_type

\* C12 as stated: after a successful submission, reading its date back
\* returns a record whose name, email, phone, date, time, duration and
\* lesson_type equal the submitted values exactly.
C12_RoundTripExact ==
    \A p \in Workers :
        Succeeded(p) =>
            \E row \in ReadBack(request[p].date) :
                row.name = request[p].name /\ SameButName(row, request[p])

\* C12 amended: after a successful submission, reading its date back
\* returns a record whose email, phone, date, time, duration and
\* lesson_type equal the submitted values exactly and whose name is the
\* submitted name without its leading and trailing whitespace.
C12_RoundTripTrimmedName ==
    \A p \in Workers :
        Succeeded(p) =>
            \E row \in ReadBack(request[p].date) :
                TrimOf(request[p].name, row.name) /\ SameButName(row, request[p])

\* A successful submission whose name came padded and whose contact is a
\* phone number only, read back among two rows of its date.
C12_Witness ==
    \E p \in Workers :
        /\ Succeeded(p)
        /\ request[p].name = <<" ">> \o Ann /\ request[p].email = <<>>
        /\ request[p].phone = Phone
        /\ Cardinality(ReadBack(request[p].date)) = 2

\* A step that changes the store is the insert of a submission on its way
\* to the success response, and it adds that submission's appointment as
\* one new row.
SuccessfulSaveStep ==
    \E p \in Workers :
        /\ pc[p] = "save" /\ pc'[p] = "notify"
        /\ Len(db') = Len(db) + 1
        /\ LET row == db'[Len(db')]
               a == appointment[p]
           IN  /\ row.name = a.name /\ row.email = a.email /\ row.phone = a.phone
               /\ row.date = a.date /\ row.time = a.time
               /\ row.duration = a.duration /\ row.lesson_type = a.lesson_type

C13_Frame ==
    /\ Len(db') >= Len(db)
    /\ \A i \in 1..Len(db) : db'[i] = db[i]
    /\ db' # db => SuccessfulSaveStep

\* C13: every step keeps every stored appointment with the same fields, and
\* the only step that changes the store is the insert of a submission that
\* is then answered with success: an availability query, a pre-check, a
\* rejected submission and the notification leave the store as it is.
C13_CreatedOnlyBySuccessfulSubmit == [][C13_Frame]_vars

\* A stored appointment that has since seen an availability query and a
\* rejected submission.
C13_Witness ==
    /\ Len(db) = 1
    /\ Answered /\ query.seen = 1
    /\ pc["w1"] = "done" /\ ~response["w1"].success

(***************************************************************************)
(* The kinds of rejection.                                                 *)
(***************************************************************************)
Rejected(p) == pc[p] = "done" /\ ~response[p].success

FieldErrors(resp) ==
    /\ resp.status = 400
    /\ DOMAIN resp.errors # {}
    /\ DOMAIN resp.errors \subseteq {"duration", "datetime", "contact", "name"}

\* The generic storage failure: the message of the catch-all branch, or the
\* server error of an exception nothing caught.
GenericFailure(resp) ==
    \/ resp.status = 500
    \/ /\ resp.status = 400
       /\ DOMAIN resp.errors = {"database"}
       /\ resp.errors["database"] = SaveFailedMessage

OneOf(a, b, c) == (a /\ ~b /\ ~c) \/ (~a /\ b /\ ~c) \/ (~a /\ ~b /\ c)

\* The store call that ended the request of p, when one did.
LastCall(p) == trace[p][Len(trace[p])]

\* C14 as stated: a rejected submission is reported as exactly one of field
\* errors, slot conflict and generic storage failure; a storage fault is
\* reported as the generic kind, and without one the rejection is a slot
\* conflict exactly when the triple was stored when the pre-check or the
\* insert looked.
C14_ThreeKinds ==
    \A p \in Workers :
        Rejected(p) =>
            /\ OneOf(FieldErrors(response[p]), SlotConflict(response[p]),
                     GenericFailure(response[p]))
            /\ trace[p] = <<>> => FieldErrors(response[p])
            /\ trace[p] # <<>> =>
                   IF LastCall(p).fault # "ok"
                   THEN GenericFailure(response[p])
                   ELSE SlotConflict(response[p]) <=> LastCall(p).stored

(***************************************************************************)
(* The buffer and the window.                                              *)
(***************************************************************************)
StartOf(b) == time_to_minutes(b.time)

EndOf(b) == time_to_minutes(b.time) + b.duration

\* Candidate start s of the query meets no booking other than b.
ClearOfOthers(s, b) ==
    \A o \in BookedRows \ {b} :
        ~(s < EndOf(o) /\ s + query.dur > StartOf(o))

\* C15: in a query for a session type other than Student Location, the
\* candidate starting exactly when a Student Location booking ends and the
\* candidate ending exactly when it starts are available when they are in
\* the window and meet no other booking; and for every session type the
\* result is the one the availability rule gives from the bookings' times
\* and durations alone.
C15_BufferOnCandidateOnly ==
    (Answered /\ query.fault = "ok") =>
        /\ query.type # StudentLocation =>
               \A b \in BookedRows :
                   b.lesson_type = StudentLocation =>
                       \A s \in InWindowStarts(query.dur) :
                           ((s = EndOf(b) \/ s + query.dur = StartOf(b))
                            /\ ClearOfOthers(s, b))
                           => s \in AvailableMinutes
        /\ AvailableMinutes = AdmittedStarts(BookedRows, query.dur, query.type)

\* An Online query for 30 minutes over a Student Location booking from
\* 10:00 to 11:00: 09:30 and 11:00 are both offered.
C15_Witness ==
    /\ Answered /\ query.fault = "ok"
    /\ query.type = Online /\ query.dur = 30
    /\ \E b \in BookedRows :
           /\ b.lesson_type = StudentLocation
           /\ b.time = T1000 /\ b.duration = 60
    /\ HHMM("0", "9", "3", "0") \in AvailableSet
    /\ HHMM("1", "1", "0", "0") \in AvailableSet

\* C16: no returned candidate ends after 20:00, whatever the bookings; a
\* Student Location candidate in the window that no booking meets within
\* its buffered interval is returned even when that interval starts before
\* 08:00 or ends after 20:00; and over a date with no booking the Student
\* Location result is every in-window candidate, as for Online.
C16_WindowOnUnbufferedEnd ==
    (Answered /\ query.fault = "ok") =>
        /\ \A s \in AvailableMinutes : s + query.dur <= 20 * 60
        /\ query.type = StudentLocation =>
               \A s \in InWindowStarts(query.dur) :
                   (/\ s - 30 < 8 * 60 \/ s + query.dur + 30 > 20 * 60
                    /\ \A b \in BookedRows :
                           ~(MaxOf(0, s - 30) < EndOf(b) /\ s + query.dur + 30 > StartOf(b)))
                   => s \in AvailableMinutes
        /\ BookedRows = {} => AvailableMinutes = InWindowStarts(query.dur)

\* A Student Location query for 60 minutes over a date with no booking:
\* 08:00 and 19:00 are offered, 19:30 is not.
C16_Witness ==
    /\ Answered /\ query.fault = "ok"
    /\ query.type = StudentLocation /\ query.dur = 60
    /\ RowsOnDate = {}
    /\ HHMM("0", "8", "0", "0") \in AvailableSet
    /\ HHMM("1", "9", "0", "0") \in AvailableSet
    /\ HHMM("1", "9", "3", "0") \notin AvailableSet

(***************************************************************************)
(* Queries and submissions of one client in turn.                          *)
(***************************************************************************)
\* The rows the table held when the query read it.
SeenRows == {db[i] : i \in 1..query.seen}

\* The effective interval of candidate start s of the query meets [t, t + d).
EffectiveMeets(s, t, d) ==
    LET buffer == IF query.type = StudentLocation THEN 30 ELSE 0
    IN  MaxOf(0, s - buffer) < t + d /\ s + query.dur + buffer > t

\* C17: a query answered from a successful read offers no candidate whose
\* effective interval meets the interval of an appointment saved on that
\* date before the read, whatever was answered to earlier queries.
C17_FreshAvailability ==
    (Answered /\ query.fault = "ok") =>
        \A row \in SeenRows :
            row.date = query.date =>
                \A s \in AvailableMinutes :
                    ~EffectiveMeets(s, StartOf(row), row.duration)

\* A Student Location query answered after two submissions went through,
\* the second saved at 10:30 on the queried date: 10:00 is not offered,
\* 09:30 is.
C17_Witness ==
    /\ Answered /\ query.fault = "ok" /\ query.type = StudentLocation
    /\ query.seen = 2 /\ Len(db) = 2
    /\ db[2].date = query.date /\ db[2].time = T1030
    /\ HHMM("0", "9", "3", "0") \in AvailableSet
    /\ HHMM("1", "0", "0", "0") \notin AvailableSet

(***************************************************************************)
(* What the store holds.                                                   *)
(***************************************************************************)
\* C18: every stored appointment has a non-blank name, a non-empty date
\* and time, a duration of 30 or 60, and an email or a phone number.
C18_StoredRowsValid ==
    \A i \in 1..Len(db) :
        /\ ~Blank(db[i].name)
        /\ ~Missing(db[i].date) /\ ~Missing(db[i].time)
        /\ db[i].duration \in {30, 60}
        /\ ~Missing(db[i].email) \/ ~Missing(db[i].phone)

\* Two stored appointments, one of 30 minutes, one with a phone number and
\* no email whose name came padded.
C18_Witness ==
    /\ Len(db) = 2
    /\ \E i \in 1..2 : db[i].duration = 30
    /\ \E i \in 1..2 : db[i].email = <<>> /\ db[i].phone = Phone /\ db[i].name = Ann

(***************************************************************************)
(* Admission on the write path.                                            *)
(***************************************************************************)
\* The submission of p has been answered.
Done(p) == pc[p] = "done"

\* C19: a submission handled on its own, with valid fields, a lesson type
\* and no storage fault, succeeds exactly when no stored appointment had
\* its (date, time, duration) when it arrived, and is otherwise turned down
\* as a slot conflict; nothing else about the stored appointments counts.
C19_AdmissionByExactTriple ==
    (Done("w1") /\ RanClean("w1")) =>
        /\ response["w1"].success <=> fresh["w1"]
        /\ ~response["w1"].success => SlotConflict(response["w1"])
        /\ response["w1"].success =>
               \E i \in 1..Len(db) : SameTriple(db[i], request["w1"])

\* A submission for 10:30-11:30 succeeded on a date that already held an
\* appointment from 10:00 to 11:00.
C19_Witness ==
    /\ Done("w1") /\ RanClean("w1") /\ response["w1"].success
    /\ Len(db) = 2
    /\ db[1].date = db[2].date
    /\ db[1].time = T1000 /\ db[1].duration = 60
    /\ db[2].time = T1030 /\ db[2].duration = 60

\* The submission of w1 asks for a start time the last query offered, with
\* the date and duration of that query, and no row was saved between the
\* read of the query and the arrival of the submission.
TookOfferedSlot ==
    /\ Answered /\ query.fault = "ok"
    /\ request["w1"].date = query.date
    /\ request["w1"].duration = query.dur
    /\ request["w1"].time \in AvailableSet
    /\ Len(db) - (IF response["w1"].success THEN 1 ELSE 0) = query.seen

\* C20: a start time offered by a query answered from a successful read,
\* submitted with the date and the duration of the query, valid other
\* fields, a lesson type, no storage fault and no save in between, passes
\* the pre-check and is saved: the submission is answered with success.
C20_OfferedSlotIsBookable ==
    (Done("w1") /\ RanClean("w1") /\ TookOfferedSlot) =>
        /\ response["w1"].success /\ response["w1"].status = 200
        /\ \E i \in Calls("w1", "is_slot_available") : trace["w1"][i].ret = "True"
        /\ SameTriple(db[Len(db)], request["w1"])

\* The store held one appointment when the query offered 10:30 for 60
\* minutes; the submission for 10:30 was saved as the second row.
C20_Witness ==
    /\ Done("w1") /\ RanClean("w1") /\ TookOfferedSlot
    /\ query.seen = 1 /\ query.dur = 60
    /\ request["w1"].time = T1030
    /\ Len(db) = 2

====
